---- MODULE Spec2Model ----
(***************************************************************************)
(* KernelFlow scheduling engine: the hazard-detecting validator            *)
(* (simulation), the greedy list scheduler (computeAutoSchedule) and the   *)
(* placement handlers of the App component, with the placement export of   *)
(* src/lib/backend.ts.                                                     *)
(***************************************************************************)
EXTENDS Integers, Sequences, FiniteSets, TLC

VARIABLES
    level,          \* currentLevel: the level template (units, instructions)
    instructions,   \* the session's instruction list (App state `instructions`)
    lastOp,         \* history: the handler that produced the current state
    sched,          \* locals of a computeAutoSchedule run observed pass by pass
    pc              \* position of that run: "idle", "loop" or "done"

vars == <<level, instructions, lastOp, sched, pc>>

-----------------------------------------------------------------------------
(* Bounds of the model                                                     *)

MaxCycle == 2        \* largest cycle a manual placement or a replay row uses
MaxUnitIndex == 1    \* largest unit index a manual placement or a replay row uses

-----------------------------------------------------------------------------
(* constants.ts                                                            *)

INSTRUCTION_SPECS ==
    [LOAD  |-> [latency |-> 3, unit |-> "MEM"],
     STORE |-> [latency |-> 1, unit |-> "MEM"],
     ADD   |-> [latency |-> 1, unit |-> "ALU"],
     MUL   |-> [latency |-> 2, unit |-> "ALU"],
     FMA   |-> [latency |-> 3, unit |-> "ALU"],
     NOOP  |-> [latency |-> 1, unit |-> "ALU"]]

\* INSTRUCTION_SPECS[t] is undefined for a type that is not a key of the table
HasSpec(t) == t \in DOMAIN INSTRUCTION_SPECS

SafeGuardLimit == 1000   \* outer pass cap of computeAutoSchedule
SearchWindow == 50       \* cycles scanned from earliestCycle

Inst(id, type, deps, variable) ==
    [id |-> id, type |-> type, cycle |-> -1, unitIndex |-> -1,
     dependencies |-> deps, variable |-> variable]

Unit(type, count) == [type |-> type, count |-> count]

\* LEVELS[0], 'level-1' (Vector Add)
Level1 ==
    [id |-> "level-1",
     units |-> <<Unit("MEM", 1), Unit("ALU", 1)>>,
     instructions |-> <<Inst("1", "LOAD", <<>>, "rA"),
                        Inst("2", "LOAD", <<>>, "rB"),
                        Inst("3", "ADD", <<"1", "2">>, "rRes"),
                        Inst("4", "STORE", <<"3">>, "MEM")>>]

\* Levels as the community-level loader parses them from level_json: the
\* units list and the instructions with cycle and unitIndex reset to -1.
LevelEmpty ==
    [id |-> "c-empty",
     units |-> <<Unit("MEM", 1), Unit("ALU", 1)>>,
     instructions |-> <<>>]

LevelPair ==
    [id |-> "c-pair",
     units |-> <<Unit("ALU", 2), Unit("MEM", 1)>>,
     instructions |-> <<Inst("1", "ADD", <<>>, "x"),
                        Inst("2", "NOOP", <<"1">>, "y")>>]

LevelTwoAlu ==
    [id |-> "c-twoalu",
     units |-> <<Unit("ALU", 1), Unit("ALU", 1), Unit("MEM", 1)>>,
     instructions |-> <<Inst("1", "ADD", <<>>, "x"),
                        Inst("2", "MUL", <<>>, "y"),
                        Inst("3", "FMA", <<"1", "2">>, "z")>>]

LevelDangling ==
    [id |-> "c-dangling",
     units |-> <<Unit("MEM", 1), Unit("ALU", 1)>>,
     instructions |-> <<Inst("1", "ADD", <<"9">>, "x"),
                        Inst("2", "NOOP", <<"1">>, "y")>>]

LevelCyclic ==
    [id |-> "c-cyclic",
     units |-> <<Unit("MEM", 1), Unit("ALU", 1)>>,
     instructions |-> <<Inst("1", "ADD", <<"2">>, "x"),
                        Inst("2", "ADD", <<"1">>, "y"),
                        Inst("3", "NOOP", <<>>, "z")>>]

LevelSelfDep ==
    [id |-> "c-selfdep",
     units |-> <<Unit("ALU", 1)>>,
     instructions |-> <<Inst("1", "NOOP", <<>>, "x"),
                        Inst("2", "ADD", <<"2">>, "y")>>]

LevelNoMem ==
    [id |-> "c-nomem",
     units |-> <<Unit("ALU", 1)>>,
     instructions |-> <<Inst("1", "LOAD", <<>>, "x"),
                        Inst("2", "ADD", <<"1">>, "y"),
                        Inst("3", "NOOP", <<>>, "z")>>]

LevelUnknownOp ==
    [id |-> "c-unknownop",
     units |-> <<Unit("MEM", 1), Unit("ALU", 1)>>,
     instructions |-> <<Inst("1", "DIV", <<>>, "x"),
                        Inst("2", "ADD", <<>>, "y")>>]

LevelNoUnits ==
    [id |-> "c-nounits",
     units |-> <<>>,
     instructions |-> <<Inst("1", "DIV", <<>>, "x"),
                        Inst("2", "ADD", <<>>, "y")>>]

\* the levels a session of the model is played on
Levels ==
    {LevelEmpty, LevelPair, LevelTwoAlu, LevelDangling, LevelCyclic,
     LevelSelfDep, LevelNoMem, LevelUnknownOp, LevelNoUnits}

-----------------------------------------------------------------------------
(* Helpers for JavaScript arrays (0-based indices)                         *)

\* arr[idx] of a JavaScript array: defined only for 0 <= idx < length
InRange(arr, idx) == idx >= 0 /\ idx < Len(arr)

\* Array.prototype.find on the instruction list: the 1-based position of the
\* first instruction with the given id, 0 when there is none
FindIdx(insts, id) ==
    IF \E k \in 1..Len(insts) : insts[k].id = id
    THEN CHOOSE k \in 1..Len(insts) :
            /\ insts[k].id = id
            /\ \A j \in 1..(k - 1) : insts[j].id # id
    ELSE 0

Max(a, b) == IF a >= b THEN a ELSE b

\* Cycles are JavaScript numbers (IEEE doubles).  From 2^55 =
\* 36028797018963968 on, adding any latency of INSTRUCTION_SPECS (1 to 3)
\* returns the same double.  Absorbing stands for 2^55: the model uses no
\* number between MaxCycle plus the scheduler's reach and Absorbing, and
\* none above it.
Absorbing == 1000000

\* a + b of two numbers, a a cycle and b a latency
NumberAdd(a, b) == IF a >= Absorbing THEN a ELSE a + b

\* a variant that is not stable: elements of equal cycle come out reversed
SortByCycle_TiesReversed(s) ==
    LET n == Len(s)
        Before(j, k) ==
            s[j].cycle < s[k].cycle \/ (s[j].cycle = s[k].cycle /\ j > k)
        rank == [k \in 1..n |-> 1 + Cardinality({j \in 1..n : Before(j, k)})]
    IN  [r \in 1..n |-> s[CHOOSE k \in 1..n : rank[k] = r]]

\* Array.prototype.sort((a, b) => a.cycle - b.cycle): a stable sort, so an
\* element comes before every element of a greater cycle and before the
\* later elements of its own cycle
SortByCycle(s) ==
    LET n == Len(s)
        Before(j, k) ==
            s[j].cycle < s[k].cycle \/ (s[j].cycle = s[k].cycle /\ j < k)
        rank == [k \in 1..n |-> 1 + Cardinality({j \in 1..n : Before(j, k)})]
    IN  [r \in 1..n |-> s[CHOOSE k \in 1..n : rank[k] = r]]

\* a variant that takes an instruction with a unit index to be placed
IsPlaced_ByUnitIndex(i) == i.unitIndex >= 0

IsPlaced(i) == i.cycle >= 0

\* instructions.filter(i => i.cycle >= 0).sort(...)
PlacedSorted(insts) == SortByCycle(SelectSeq(insts, IsPlaced))

-----------------------------------------------------------------------------
(* simulation: the validator                                               *)

Hazard(cycle, reason, instructionId, type) ==
    [cycle |-> cycle, reason |-> reason, instructionId |-> instructionId,
     type |-> type]

\* a variant that reads the unit list one row too far
UnitHazards_OffByOne(inst, lvl) ==
    IF /\ InRange(lvl.units, inst.unitIndex + 1)
       /\ lvl.units[inst.unitIndex + 2].type # INSTRUCTION_SPECS[inst.type].unit
    THEN <<Hazard(inst.cycle,
                  <<"Unit Mismatch", inst.type, INSTRUCTION_SPECS[inst.type].unit>>,
                  inst.id, "UNIT")>>
    ELSE <<>>

\* 1. unit compatibility: `unit && unit.type !== spec.unit`
UnitHazards(inst, lvl) ==
    IF /\ InRange(lvl.units, inst.unitIndex)
       /\ lvl.units[inst.unitIndex + 1].type # INSTRUCTION_SPECS[inst.type].unit
    THEN <<Hazard(inst.cycle,
                  <<"Unit Mismatch", inst.type, INSTRUCTION_SPECS[inst.type].unit>>,
                  inst.id, "UNIT")>>
    ELSE <<>>

\* a variant that treats an unplaced dependency like a missing one
DepHazard_SkipUnplaced(inst, depId, insts) ==
    LET k == FindIdx(insts, depId) IN
    IF k = 0 THEN <<>>
    ELSE LET depInst == insts[k] IN
         IF depInst.cycle < 0 THEN <<>>
         ELSE LET depEnd == NumberAdd(depInst.cycle, INSTRUCTION_SPECS[depInst.type].latency) IN
              IF inst.cycle < depEnd
              THEN <<Hazard(inst.cycle,
                            <<"RAW Hazard", inst.variable, depInst.variable, depEnd>>,
                            inst.id, "RAW")>>
              ELSE <<>>

\* a variant that also flags a consumer starting exactly at the end cycle
DepHazard_ReadyInclusive(inst, depId, insts) ==
    LET k == FindIdx(insts, depId) IN
    IF k = 0 THEN <<>>
    ELSE LET depInst == insts[k] IN
         IF depInst.cycle < 0
         THEN <<Hazard(inst.cycle,
                       <<"Stalled on unplaced", depInst.variable, depId>>,
                       inst.id, "RAW")>>
         ELSE LET depEnd == NumberAdd(depInst.cycle, INSTRUCTION_SPECS[depInst.type].latency) IN
              IF inst.cycle <= depEnd
              THEN <<Hazard(inst.cycle,
                            <<"RAW Hazard", inst.variable, depInst.variable, depEnd>>,
                            inst.id, "RAW")>>
              ELSE <<>>

\* a variant that reports a dependency id without an instruction as stalled
DepHazard_MissingStalls(inst, depId, insts) ==
    LET k == FindIdx(insts, depId) IN
    IF k = 0
    THEN <<Hazard(inst.cycle, <<"Stalled on unplaced", "?", depId>>, inst.id, "RAW")>>
    ELSE LET depInst == insts[k] IN
         IF depInst.cycle < 0
         THEN <<Hazard(inst.cycle,
                       <<"Stalled on unplaced", depInst.variable, depId>>,
                       inst.id, "RAW")>>
         ELSE LET depEnd == NumberAdd(depInst.cycle, INSTRUCTION_SPECS[depInst.type].latency) IN
              IF inst.cycle < depEnd
              THEN <<Hazard(inst.cycle,
                            <<"RAW Hazard", inst.variable, depInst.variable, depEnd>>,
                            inst.id, "RAW")>>
              ELSE <<>>

\* 2. one dependency id of inst
DepHazard(inst, depId, insts) ==
    LET k == FindIdx(insts, depId) IN
    IF k = 0 THEN <<>>
    ELSE LET depInst == insts[k] IN
         IF depInst.cycle < 0
         THEN <<Hazard(inst.cycle,
                       <<"Stalled on unplaced", depInst.variable, depId>>,
                       inst.id, "RAW")>>
         ELSE LET depEnd == NumberAdd(depInst.cycle, INSTRUCTION_SPECS[depInst.type].latency) IN
              IF inst.cycle < depEnd
              THEN <<Hazard(inst.cycle,
                            <<"RAW Hazard", inst.variable, depInst.variable, depEnd>>,
                            inst.id, "RAW")>>
              ELSE <<>>

RECURSIVE DepHazards(_, _, _)
DepHazards(inst, deps, insts) ==
    IF deps = <<>> THEN <<>>
    ELSE DepHazard(inst, Head(deps), insts) \o DepHazards(inst, Tail(deps), insts)

\* a variant that flags every overlap of the occupancy intervals
StructuralHazards_IntervalOverlap(inst, placed) ==
    IF \E k \in 1..Len(placed) :
          /\ placed[k].id # inst.id
          /\ placed[k].unitIndex = inst.unitIndex
          /\ placed[k].cycle < inst.cycle + INSTRUCTION_SPECS[inst.type].latency
          /\ inst.cycle < placed[k].cycle + INSTRUCTION_SPECS[placed[k].type].latency
    THEN <<Hazard(inst.cycle, <<"Structural Hazard", inst.cycle>>, inst.id,
                  "STRUCTURAL")>>
    ELSE <<>>

\* 3. structural hazard: another placed instruction with the same unitIndex
\*    and the same start cycle
StructuralHazards(inst, placed) ==
    IF \E k \in 1..Len(placed) :
          /\ placed[k].id # inst.id
          /\ placed[k].unitIndex = inst.unitIndex
          /\ placed[k].cycle = inst.cycle
    THEN <<Hazard(inst.cycle, <<"Structural Hazard", inst.cycle>>, inst.id,
                  "STRUCTURAL")>>
    ELSE <<>>

InstHazards(inst, insts, placed, lvl) ==
    UnitHazards(inst, lvl) \o DepHazards(inst, inst.dependencies, insts)
        \o StructuralHazards(inst, placed)

\* for (const inst of placed): the hazards of placed[lo..hi] in the order the
\* loop pushes them (the range is split in two to keep the evaluation shallow)
RECURSIVE AllHazards(_, _, _, _, _)
AllHazards(lo, hi, insts, placed, lvl) ==
    IF lo > hi THEN <<>>
    ELSE IF lo = hi THEN InstHazards(placed[lo], insts, placed, lvl)
    ELSE LET mid == (lo + hi) \div 2
         IN  AllHazards(lo, mid, insts, placed, lvl)
                \o AllHazards(mid + 1, hi, insts, placed, lvl)

\* a variant that takes every operation to last one cycle
MaxEndCycle_UnitLatency(placed) ==
    LET ends == {0} \cup {NumberAdd(placed[k].cycle, 1) : k \in 1..Len(placed)}
    IN  CHOOSE m \in ends : \A e \in ends : m >= e

\* maxCycle: starts at 0, raised by every endCycle above it
MaxEndCycle(placed) ==
    LET ends == {0} \cup {NumberAdd(placed[k].cycle,
                                    INSTRUCTION_SPECS[placed[k].type].latency) :
                             k \in 1..Len(placed)}
    IN  CHOOSE m \in ends : \A e \in ends : m >= e

\* The loop body reads spec.latency of the instruction and the latency of
\* each placed dependency: a TypeError when the type has no spec entry.
SimulationThrows(insts) ==
    \E k \in 1..Len(insts) :
        /\ IsPlaced(insts[k])
        /\ \/ ~HasSpec(insts[k].type)
           \/ \E d \in 1..Len(insts[k].dependencies) :
                 LET j == FindIdx(insts, insts[k].dependencies[d]) IN
                 /\ j # 0
                 /\ insts[j].cycle >= 0
                 /\ ~HasSpec(insts[j].type)

Result(threw, valid, totalCycles, hazards, score) ==
    [threw |-> threw, valid |-> valid, totalCycles |-> totalCycles,
     hazards |-> hazards, registerUsage |-> 0, score |-> score]

\* the outcome of an evaluation that raised a TypeError: no result is produced
Thrown == Result(TRUE, FALSE, 0, <<>>, 0)

\* a variant that is satisfied as soon as one instruction is placed
AllPlaced_SomePlaced(insts) == \E k \in 1..Len(insts) : insts[k].cycle >= 0

\* instructions.every(i => i.cycle >= 0)
AllPlaced(insts) == \A k \in 1..Len(insts) : insts[k].cycle >= 0

\* a variant without the lower clamp
Score_Unclamped(ok, maxCycle) == IF ok THEN 1000 - maxCycle * 10 ELSE 0

Score(ok, maxCycle) == IF ok THEN Max(0, 1000 - maxCycle * 10) ELSE 0

Simulation(insts, lvl) ==
    LET placed == PlacedSorted(insts) IN
    IF Len(placed) = 0 THEN Result(FALSE, FALSE, 0, <<>>, 0)
    ELSE IF SimulationThrows(insts) THEN Thrown
    ELSE LET hazards == AllHazards(1, Len(placed), insts, placed, lvl)
             maxCycle == MaxEndCycle(placed)
             ok == AllPlaced(insts) /\ Len(hazards) = 0
         IN  Result(FALSE, ok, maxCycle, hazards, Score(ok, maxCycle))

-----------------------------------------------------------------------------
(* computeAutoSchedule: the greedy list scheduler                          *)

\* insts = JSON.parse(JSON.stringify(levelInsts)); every placement reset
ResetPlacement(i) == [i EXCEPT !.cycle = -1, !.unitIndex = -1]

ResetAll(insts) == [k \in 1..Len(insts) |-> ResetPlacement(insts[k])]

\* the locals of one run: remaining, scheduled, placementMap, safeGuard;
\* broke: the loop left through `break`; threw: a TypeError was raised
InitSched(levelInsts) ==
    [remaining |-> ResetAll(levelInsts),
     scheduled |-> <<>>,
     placementMap |-> [x \in {} |-> 0],
     safeGuard |-> 0,
     broke |-> FALSE,
     threw |-> FALSE]

\* a variant whose pass cap is off by one
LoopCond_OffByOne(st) == Len(st.remaining) > 0 /\ st.safeGuard <= SafeGuardLimit

\* while (remaining.length > 0 && safeGuard < 1000)
LoopCond(st) == Len(st.remaining) > 0 /\ st.safeGuard < SafeGuardLimit

\* a variant that takes an instruction's dependency on itself as committed
DepsCommitted_ExceptSelf(inst, placementMap) ==
    \A d \in 1..Len(inst.dependencies) :
        \/ inst.dependencies[d] = inst.id
        \/ inst.dependencies[d] \in DOMAIN placementMap

\* inst.dependencies.every(depId => placementMap.has(depId))
DepsCommitted(inst, placementMap) ==
    \A d \in 1..Len(inst.dependencies) :
        inst.dependencies[d] \in DOMAIN placementMap

Candidates(st) ==
    LET Ready(inst) == DepsCommitted(inst, st.placementMap)
    IN  SelectSeq(st.remaining, Ready)

\* a variant that waits for the start, not the end, of each dependency
EarliestCycle_DepStart(deps, placementMap) ==
    LET starts == {placementMap[deps[d]].cycle :
                      d \in {j \in 1..Len(deps) : deps[j] \in DOMAIN placementMap}}
    IN  IF starts = {} THEN 0 ELSE CHOOSE x \in starts : \A y \in starts : x >= y

\* earliestCycle = max over the dependencies of depInfo.endCycle, 0 if none
RECURSIVE EarliestCycle(_, _)
EarliestCycle(deps, placementMap) ==
    IF deps = <<>> THEN 0
    ELSE LET rest == EarliestCycle(SubSeq(deps, 1, Len(deps) - 1), placementMap)
             depId == deps[Len(deps)]
         IN  IF depId \in DOMAIN placementMap
             THEN Max(rest, placementMap[depId].endCycle)
             ELSE rest

\* a variant that offers every unit row, whatever its kind
ValidUnitIndices_AnyRow(lvl, unitKind) == 0..(Len(lvl.units) - 1)

\* level.units.map((u, idx) => ...).filter(u => u.type === spec.unit).map(u => u.idx)
ValidUnitIndices(lvl, unitKind) ==
    {idx \in 0..(Len(lvl.units) - 1) : lvl.units[idx + 1].type = unitKind}

\* a variant that keeps a unit busy for the whole latency of its instruction
Occupied_WholeLatency(scheduled, uIdx, c) ==
    \E k \in 1..Len(scheduled) :
        /\ scheduled[k].unitIndex = uIdx
        /\ scheduled[k].cycle <= c
        /\ c < scheduled[k].cycle + INSTRUCTION_SPECS[scheduled[k].type].latency

\* scheduled.some(s => s.unitIndex === uIdx && s.cycle === c)
Occupied(scheduled, uIdx, c) ==
    \E k \in 1..Len(scheduled) :
        scheduled[k].unitIndex = uIdx /\ scheduled[k].cycle = c

MinOf(S) == CHOOSE x \in S : \A y \in S : x <= y

\* a variant whose scan starts one cycle after earliestCycle
FreeCycles_SkipFirst(scheduled, valid, earliestCycle) ==
    {c \in (earliestCycle + 1)..(earliestCycle + SearchWindow) :
        \E uIdx \in valid : ~Occupied(scheduled, uIdx, c)}

\* for (c = earliestCycle; c < earliestCycle + 50; c++) for (uIdx of valid):
\* the cycles of the window that have a free valid unit
FreeCycles(scheduled, valid, earliestCycle) ==
    {c \in earliestCycle..(earliestCycle + SearchWindow - 1) :
        \E uIdx \in valid : ~Occupied(scheduled, uIdx, c)}

Commit(st, inst, c, uIdx) ==
    LET placedInst == [inst EXCEPT !.cycle = c, !.unitIndex = uIdx]
        entry == [cycle |-> c,
                  endCycle |-> NumberAdd(c, INSTRUCTION_SPECS[inst.type].latency)]
        Other(r) == r.id # inst.id
    IN  [st EXCEPT
            !.scheduled = Append(st.scheduled, placedInst),
            !.placementMap =
                [id \in DOMAIN st.placementMap \cup {inst.id} |->
                    IF id = inst.id THEN entry ELSE st.placementMap[id]],
            !.remaining = SelectSeq(st.remaining, Other)]

\* the two nested for loops: the first cycle of the window with a free valid
\* unit and the first such unit are committed; nothing when the window is
\* full.  (free and c are bound as values.)
CommitFirstFree(st, inst, valid, free) ==
    IF free = {} THEN st
    ELSE CHOOSE r \in {Commit(st, inst, c,
                              MinOf({u \in valid : ~Occupied(st.scheduled, u, c)})) :
                          c \in {MinOf(free)}} : TRUE

\* the body of `for (const inst of candidates)` for one candidate
ScheduleOne(st, inst, lvl) ==
    IF ~HasSpec(inst.type)
    THEN \* spec is undefined: the filter callback reads spec.unit once per unit
         IF Len(lvl.units) > 0 THEN [st EXCEPT !.threw = TRUE] ELSE st
    ELSE LET earliestCycle == EarliestCycle(inst.dependencies, st.placementMap)
             valid == ValidUnitIndices(lvl, INSTRUCTION_SPECS[inst.type].unit)
         IN  IF valid = {} THEN st
             ELSE CHOOSE r \in {CommitFirstFree(st, inst, valid, free) :
                                  free \in {FreeCycles(st.scheduled, valid,
                                                       earliestCycle)}} : TRUE

\* for (const inst of candidates): the run state is threaded through
\* cands[lo..hi] in order; an error ends the loop.  The range is split in two
\* to keep the evaluation shallow, and the state after the first half is
\* bound as a value before the second half is handled.
RECURSIVE ScheduleCandidates(_, _, _, _, _)
ScheduleCandidates(st, cands, lo, hi, lvl) ==
    IF lo > hi \/ st.threw THEN st
    ELSE IF lo = hi THEN ScheduleOne(st, cands[lo], lvl)
    ELSE LET mid == (lo + hi) \div 2
         IN  CHOOSE r \in {ScheduleCandidates(half, cands, mid + 1, hi, lvl) :
                              half \in {ScheduleCandidates(st, cands, lo, mid, lvl)}} : TRUE

\* one iteration of the while loop: safeGuard++, the candidates are filtered
\* once (st1 and cands are bound as values), break when there is none
Pass(st, lvl) ==
    CHOOSE r \in {IF Len(cands) = 0 THEN [st1 EXCEPT !.broke = TRUE]
                  ELSE ScheduleCandidates(st1, cands, 1, Len(cands), lvl) :
                     st1 \in {[st EXCEPT !.safeGuard = st.safeGuard + 1]},
                     cands \in {Candidates([st EXCEPT !.safeGuard = st.safeGuard + 1])}} : TRUE

SchedRunning(st) == LoopCond(st) /\ ~st.broke /\ ~st.threw

\* The while loop run to its exit.  A pass that commits nothing and does not
\* break leaves remaining, scheduled and placementMap as they were, so every
\* later pass repeats it and the loop only counts safeGuard up to the cap;
\* the other passes are made one by one.
RECURSIVE RunLoop(_, _)
RunLoop(st, lvl) ==
    IF ~SchedRunning(st) THEN st
    ELSE CHOOSE r \in {IF SchedRunning(next) /\ next.scheduled = st.scheduled
                       THEN [next EXCEPT !.safeGuard = SafeGuardLimit]
                       ELSE RunLoop(next, lvl) :
                          next \in {Pass(st, lvl)}} : TRUE

\* the run of computeAutoSchedule(levelInsts, level); `scheduled` of the
\* final record is the returned list unless threw
ComputeAutoSchedule(levelInsts, lvl) ==
    RunLoop(InitSched(levelInsts), lvl)

-----------------------------------------------------------------------------
(* Placement handlers of App and exportPlacements of lib/backend.ts        *)

MapInsts(insts, F(_)) == [k \in 1..Len(insts) |-> F(insts[k])]

\* a variant that refuses a cell another instruction already holds
HandlePlaceInstruction_IfFree(insts, id, unitIndex, cycle) ==
    IF \E k \in 1..Len(insts) :
          insts[k].id # id /\ insts[k].unitIndex = unitIndex /\ insts[k].cycle = cycle
    THEN insts
    ELSE [k \in 1..Len(insts) |->
            IF insts[k].id = id
            THEN [insts[k] EXCEPT !.unitIndex = unitIndex, !.cycle = cycle]
            ELSE insts[k]]

\* handlePlaceInstruction(id, unitIndex, cycle)
HandlePlaceInstruction(insts, id, unitIndex, cycle) ==
    LET F(i) == IF i.id = id
                THEN [i EXCEPT !.unitIndex = unitIndex, !.cycle = cycle]
                ELSE i
    IN  MapInsts(insts, F)

\* a variant that clears the start cycle and keeps the unit index
HandleRemoveInstruction_CycleOnly(insts, id) ==
    [k \in 1..Len(insts) |->
        IF insts[k].id = id THEN [insts[k] EXCEPT !.cycle = -1] ELSE insts[k]]

\* handleRemoveInstruction(id)
HandleRemoveInstruction(insts, id) ==
    LET F(i) == IF i.id = id
                THEN [i EXCEPT !.unitIndex = -1, !.cycle = -1]
                ELSE i
    IN  MapInsts(insts, F)

\* a variant that restores the instructions of the first built-in level
HandleReset_FirstLevel(lvl) == Level1.instructions

\* handleReset: JSON.parse(JSON.stringify(currentLevel.instructions))
HandleReset(lvl) == lvl.instructions

\* a variant that makes the returned list the session list
MergeScheduled_ReplaceList(prev, st) ==
    IF st.threw \/ Len(st.scheduled) = 0 THEN prev ELSE st.scheduled

\* the state update at the end of handleAutoSchedule, for a finished run st
MergeScheduled(prev, st) ==
    IF st.threw THEN prev
    ELSE IF Len(st.scheduled) > 0
    THEN LET F(p) == LET k == FindIdx(st.scheduled, p.id)
                     IN  IF k # 0 THEN st.scheduled[k] ELSE p
         IN  MapInsts(prev, F)
    ELSE prev

\* handleAutoSchedule
HandleAutoSchedule(insts, lvl) ==
    MergeScheduled(insts, ComputeAutoSchedule(insts, lvl))

\* exportPlacements(instructions)
Exported(i) == i.cycle >= 0 /\ i.unitIndex >= 0

ExportEntry(i) ==
    [instructionId |-> i.id, type |-> i.type, cycle |-> i.cycle,
     unitIndex |-> i.unitIndex]

ExportPlacements(insts) ==
    LET kept == SelectSeq(insts, Exported)
    IN  [placements |-> [k \in 1..Len(kept) |-> ExportEntry(kept[k])]]

\* A leaderboard row whose schedule_json is {placements: [...]}
RowOf(schedule) == [hasPlacements |-> TRUE, schedule_json |-> schedule]

\* A leaderboard row whose schedule_json is null or has no placements field
RowWithoutPlacements ==
    [hasPlacements |-> FALSE, schedule_json |-> [placements |-> <<>>]]

\* placements.find(p => p.instructionId === inst.id)
FindPlacement(placements, id) ==
    IF \E k \in 1..Len(placements) : placements[k].instructionId = id
    THEN CHOOSE k \in 1..Len(placements) :
            /\ placements[k].instructionId = id
            /\ \A j \in 1..(k - 1) : placements[j].instructionId # id
    ELSE 0

\* a variant that leaves an instruction the row does not list as it was
HandleReplayRun_KeepUnlisted(insts, row) ==
    IF ~row.hasPlacements THEN insts
    ELSE [k \in 1..Len(insts) |->
            LET m == FindPlacement(row.schedule_json.placements, insts[k].id)
            IN  IF m # 0
                THEN [insts[k] EXCEPT
                         !.cycle = row.schedule_json.placements[m].cycle,
                         !.unitIndex = row.schedule_json.placements[m].unitIndex]
                ELSE insts[k]]

\* handleReplayRun(row)
HandleReplayRun(insts, row) ==
    IF ~row.hasPlacements THEN insts
    ELSE LET placements == row.schedule_json.placements
             F(inst) ==
                 LET m == FindPlacement(placements, inst.id)
                 IN  IF m # 0
                     THEN [inst EXCEPT !.cycle = placements[m].cycle,
                                       !.unitIndex = placements[m].unitIndex]
                     ELSE [inst EXCEPT !.cycle = -1, !.unitIndex = -1]
         IN  MapInsts(insts, F)

-----------------------------------------------------------------------------
(* Inputs                                                                  *)

IdsOf(insts) == {insts[k].id : k \in 1..Len(insts)}

\* cells of the timeline grid a selected instruction can be dropped on
PlaceUnitInputs == 0..MaxUnitIndex
PlaceCycleInputs == 0..MaxCycle

\* placement values a leaderboard row may carry (rows come from the database)
ReplayUnitInputs == -1..MaxUnitIndex
ReplayCycleInputs == -1..MaxCycle

\* rows without placements, the export of the current state, and rows with
\* one entry, among them entries whose type field is not the instruction's
ReplayRows(insts, lvl) ==
    {RowWithoutPlacements, RowOf([placements |-> <<>>])}
    \cup {RowOf(ExportPlacements(insts))}
    \cup {RowOf([placements |->
                    <<[instructionId |-> insts[k].id, type |-> insts[k].type,
                       cycle |-> c, unitIndex |-> u]>>]) :
            k \in 1..Len(insts), u \in ReplayUnitInputs, c \in ReplayCycleInputs}
    \cup {RowOf([placements |->
                    <<[instructionId |-> insts[k].id, type |-> "STORE",
                       cycle |-> 0, unitIndex |-> 0]>>]) : k \in 1..Len(insts)}

-----------------------------------------------------------------------------
(* The session: one level, its instruction list and the handlers           *)

Idle == InitSched(<<>>)

\* Level initialization effect: a deep copy of the level's instructions
Init ==
    /\ level \in Levels
    /\ instructions = level.instructions
    /\ lastOp = "init"
    /\ sched = Idle
    /\ pc = "idle"

Place ==
    /\ pc = "idle"
    /\ \E id \in IdsOf(instructions), u \in PlaceUnitInputs, c \in PlaceCycleInputs :
          instructions' = HandlePlaceInstruction(instructions, id, u, c)
    /\ lastOp' = "place"
    /\ UNCHANGED <<level, sched, pc>>

Remove ==
    /\ pc = "idle"
    /\ \E id \in IdsOf(instructions) :
          instructions' = HandleRemoveInstruction(instructions, id)
    /\ lastOp' = "remove"
    /\ UNCHANGED <<level, sched, pc>>

Reset ==
    /\ pc = "idle"
    /\ instructions' = HandleReset(level)
    /\ lastOp' = "reset"
    /\ UNCHANGED <<level, sched, pc>>

AutoSchedule ==
    /\ pc = "idle"
    /\ instructions' = HandleAutoSchedule(instructions, level)
    /\ lastOp' = "auto"
    /\ UNCHANGED <<level, sched, pc>>

Replay ==
    /\ pc = "idle"
    /\ \E row \in ReplayRows(instructions, level) :
          instructions' = HandleReplayRun(instructions, row)
    /\ lastOp' = "replay"
    /\ UNCHANGED <<level, sched, pc>>

\* a variant that sorts the state array itself: instructions.sort(...)
InstructionsAfterSimulation_SortInPlace(insts) == SortByCycle(insts)

\* The instruction list as an evaluation of `simulation` leaves it: filter
\* builds a new array, and only that copy is sorted.
InstructionsAfterSimulation(insts) == insts

\* useMemo: the validator's result for the current state
simulation == Simulation(instructions, level)

\* a render that evaluates `simulation` again on the current state
Validate ==
    /\ pc = "idle"
    /\ instructions' = InstructionsAfterSimulation(instructions)
    /\ lastOp' = "validate"
    /\ UNCHANGED <<level, sched, pc>>

Next == Place \/ Remove \/ Reset \/ AutoSchedule \/ Replay \/ Validate

Spec == Init /\ [][Next]_vars


-----------------------------------------------------------------------------
(* Sessions that replay rows submitted by agents                           *)

\* the session levels whose dependency graph has a cycle
CyclicLevels == {LevelCyclic, LevelSelfDep}

\* what a row written by an agent may carry: schedule_json is `any`, a cycle
\* is whatever JSON number was submitted
AgentCycleInputs == {0, Absorbing}
AgentUnitInputs == {0, MaxUnitIndex}

\* rows that list every instruction of the session
AgentRows(insts) ==
    {RowOf([placements |->
               [k \in 1..Len(insts) |->
                   [instructionId |-> insts[k].id, type |-> insts[k].type,
                    cycle |-> f[k][1], unitIndex |-> f[k][2]]]]) :
        f \in [1..Len(insts) -> AgentCycleInputs \X AgentUnitInputs]}

AgentInit ==
    /\ level \in CyclicLevels
    /\ instructions = level.instructions
    /\ lastOp = "init"
    /\ sched = Idle
    /\ pc = "idle"

ReplayAgentRun ==
    /\ pc = "idle"
    /\ \E row \in AgentRows(instructions) :
          instructions' = HandleReplayRun(instructions, row)
    /\ lastOp' = "replay"
    /\ UNCHANGED <<level, sched, pc>>

AgentNext == Place \/ Remove \/ AutoSchedule \/ Replay \/ ReplayAgentRun

AgentSpec == AgentInit /\ [][AgentNext]_vars

-----------------------------------------------------------------------------
(* One handleAutoSchedule call observed pass by pass                       *)

\* a community level of n independent NOOPs on a single ALU row
LevelWide(n) ==
    [id |-> "c-wide",
     units |-> <<Unit("ALU", 1)>>,
     instructions |-> [k \in 1..n |-> Inst(ToString(k), "NOOP", <<>>, "w")]]

\* a community level of SearchWindow independent NOOPs followed by m
\* operations of one ALU type that depend on the last NOOP, on a single ALU row
LevelLayered(m, type) ==
    [id |-> "c-layered",
     units |-> <<Unit("ALU", 1)>>,
     instructions |->
        [k \in 1..(SearchWindow + m) |->
            IF k <= SearchWindow
            THEN Inst(ToString(k), "NOOP", <<>>, "w")
            ELSE Inst(ToString(k), type, <<ToString(SearchWindow)>>, "v")]]

\* a community level with a two-instruction cycle, an instruction that
\* depends on the cycle and two instructions that do not
LevelCyclicTail ==
    [id |-> "c-cyclictail",
     units |-> <<Unit("MEM", 1), Unit("ALU", 1)>>,
     instructions |-> <<Inst("1", "LOAD", <<>>, "a"),
                        Inst("2", "ADD", <<"1", "3">>, "b"),
                        Inst("3", "MUL", <<"2">>, "c"),
                        Inst("4", "STORE", <<"3">>, "MEM"),
                        Inst("5", "NOOP", <<"1">>, "e")>>]

\* a community level with a cycle and, apart from it, a dependency id that
\* names no instruction
LevelCyclicDangling ==
    [id |-> "c-cyclicdangling",
     units |-> <<Unit("ALU", 1)>>,
     instructions |-> <<Inst("1", "NOOP", <<>>, "a"),
                        Inst("2", "ADD", <<"3">>, "b"),
                        Inst("3", "ADD", <<"2">>, "c"),
                        Inst("4", "NOOP", <<"9">>, "d")>>]

\* a community level of n independent NOOPs and one instruction that depends
\* on itself, on a single ALU row
LevelCyclicWide(n) ==
    [id |-> "c-cyclicwide",
     units |-> <<Unit("ALU", 1)>>,
     instructions |->
        [k \in 1..(n + 1) |->
            IF k <= n THEN Inst(ToString(k), "NOOP", <<>>, "w")
            ELSE Inst(ToString(k), "ADD", <<ToString(k)>>, "v")]]

\* the levels auto-schedule is observed on: those of the sessions, the
\* built-in level-1, two levels around the size of the search window, two
\* levels whose schedule ends just below and just above cycle 100, and
\* levels with a dependency cycle
SchedLevels ==
    Levels \cup {Level1, LevelWide(SearchWindow), LevelWide(SearchWindow + 1),
                 LevelLayered(SearchWindow - 1, "NOOP"),
                 LevelLayered(SearchWindow, "MUL"),
                 LevelCyclicTail, LevelCyclicDangling,
                 LevelCyclicWide(SearchWindow + 1)}

\* session states the call starts from: nothing placed, or every instruction
\* dropped on the same grid cell (the first or the last cell of the inputs)
AllAt(insts, u, c) ==
    [k \in 1..Len(insts) |-> [insts[k] EXCEPT !.unitIndex = u, !.cycle = c]]

PriorStates(lvl) ==
    {lvl.instructions,
     AllAt(lvl.instructions, 0, 0),
     AllAt(lvl.instructions, MaxUnitIndex, MaxCycle)}

SchedInit ==
    /\ level \in SchedLevels
    /\ instructions \in PriorStates(level)
    /\ lastOp = "init"
    /\ sched = InitSched(instructions)
    /\ pc = "loop"

\* one iteration of the while loop of computeAutoSchedule
SchedPass ==
    /\ pc = "loop"
    /\ SchedRunning(sched)
    /\ sched' = Pass(sched, level)
    /\ UNCHANGED <<level, instructions, lastOp, pc>>

\* the loop has exited: computeAutoSchedule returns (or the error propagates)
\* and handleAutoSchedule updates the session state
SchedReturn ==
    /\ pc = "loop"
    /\ ~SchedRunning(sched)
    /\ instructions' = MergeScheduled(instructions, sched)
    /\ lastOp' = "auto"
    /\ pc' = "done"
    /\ UNCHANGED <<level, sched>>

SchedNext == SchedPass \/ SchedReturn

\* the call runs to completion on the single JavaScript thread
SchedSpec == SchedInit /\ [][SchedNext]_vars /\ WF_vars(SchedNext)

\* the run as one evaluation and the run pass by pass end in the same state
RunLoopMatchesPasses ==
    pc = "done" => sched = ComputeAutoSchedule(level.instructions, level)

-----------------------------------------------------------------------------
(* MetricsPanel.tsx: the roofline figures of the metrics panel             *)

MaxPerKind == 2      \* most instructions of one operation kind in a kernel
MaxUnitCount == 2    \* largest count of one unit row

\* A JavaScript number that is the ratio of two non-negative integers, kept
\* as the fraction in lowest terms.  The code divides and multiplies IEEE
\* doubles, so its value is this fraction up to rounding (3 * (1 / 5) is
\* 0.6000000000000001); the strict comparison with the whole number
\* peakCompute comes out as on the fraction for every inventory of fewer
\* than 7 MEM units.
RECURSIVE Gcd(_, _)
Gcd(a, b) == IF b = 0 THEN a ELSE Gcd(b, a % b)

Num(n, d) == [num |-> n \div Gcd(n, d), den |-> d \div Gcd(n, d)]

Times(n, r) == Num(n * r.num, r.den)

Less(r, s) == r.num * s.den < s.num * r.den

\* Math.min
MathMin(r, s) == IF Less(s, r) THEN s ELSE r

\* a variant that counts a fused multiply-add as a single operation
FlopWeight_FmaAsOne(type) ==
    IF type = "ADD" \/ type = "MUL" THEN 1
    ELSE IF type = "FMA" THEN 1
    ELSE 0

\* the reducer of totalFlops: what one instruction adds to the accumulator
FlopWeight(type) ==
    IF type = "ADD" \/ type = "MUL" THEN 1
    ELSE IF type = "FMA" THEN 2
    ELSE 0

\* the reducer of totalMemOps
MemOpWeight(type) == IF type = "LOAD" \/ type = "STORE" THEN 1 ELSE 0

\* instructions.reduce(..., 0) over the first k instructions
RECURSIVE FlopsUpTo(_, _)
FlopsUpTo(insts, k) ==
    IF k = 0 THEN 0 ELSE FlopsUpTo(insts, k - 1) + FlopWeight(insts[k].type)

TotalFlops(insts) == FlopsUpTo(insts, Len(insts))

RECURSIVE MemOpsUpTo(_, _)
MemOpsUpTo(insts, k) ==
    IF k = 0 THEN 0 ELSE MemOpsUpTo(insts, k - 1) + MemOpWeight(insts[k].type)

TotalMemOps(insts) == MemOpsUpTo(insts, Len(insts))

\* level.units.filter(u => u.type === type).reduce((s, u) => s + u.count, 0)
RECURSIVE CountUpTo(_, _, _)
CountUpTo(units, type, k) ==
    IF k = 0 THEN 0
    ELSE CountUpTo(units, type, k - 1)
            + (IF units[k].type = type THEN units[k].count ELSE 0)

NumALUs(lvl) == CountUpTo(lvl.units, "ALU", Len(lvl.units))

NumMEMs(lvl) == CountUpTo(lvl.units, "MEM", Len(lvl.units))

PeakCompute(lvl) == NumALUs(lvl)

PeakMemBW(lvl) == NumMEMs(lvl)

\* totalMemOps > 0 ? totalFlops / totalMemOps : 0
OperationalIntensity(insts) ==
    IF TotalMemOps(insts) > 0
    THEN Num(TotalFlops(insts), TotalMemOps(insts))
    ELSE Num(0, 1)

MemBoundLimit(insts, lvl) == Times(PeakMemBW(lvl), OperationalIntensity(insts))

RooflineLimit(insts, lvl) ==
    MathMin(Num(PeakCompute(lvl), 1), MemBoundLimit(insts, lvl))

IsMemBound(insts, lvl) ==
    Less(MemBoundLimit(insts, lvl), Num(PeakCompute(lvl), 1))

\* the figures one render of the panel derives from its props
RooflineMetrics(insts, lvl) ==
    [totalFlops |-> TotalFlops(insts),
     totalMemOps |-> TotalMemOps(insts),
     peakCompute |-> PeakCompute(lvl),
     peakMemBW |-> PeakMemBW(lvl),
     operationalIntensity |-> OperationalIntensity(insts),
     memBoundLimit |-> MemBoundLimit(insts, lvl),
     rooflineLimit |-> RooflineLimit(insts, lvl),
     isMemBound |-> IsMemBound(insts, lvl)]

metrics == RooflineMetrics(instructions, level)

\* n instructions of one type
Rep(type, n) == [k \in 1..n |-> type]

\* the other operation kinds a kernel may hold: none, a NOOP, or a type
\* that is not a key of INSTRUCTION_SPECS
OtherOps == {<<>>, <<"NOOP">>, <<"SQRT">>}

\* the unit rows a level may add to its first ALU row and its first MEM row
ExtraUnitRows == {<<>>, <<Unit("ALU", 1)>>, <<Unit("MEM", 1)>>}

\* a community level with the given unit rows and one instruction per type
LevelOf(units, types) ==
    [id |-> "c-roofline",
     units |-> units,
     instructions |-> [k \in 1..Len(types) |-> Inst(ToString(k), types[k], <<>>, "v")]]

\* a level the panel is rendered for
RooflineLevel(a, m, extra, nl, ns, na, nm, nf, other) ==
    LevelOf(<<Unit("ALU", a), Unit("MEM", m)>> \o extra,
            Rep("LOAD", nl) \o Rep("ADD", na) \o Rep("FMA", nf)
               \o Rep("STORE", ns) \o Rep("MUL", nm) \o other)

MetricsInit ==
    /\ \E a \in 0..MaxUnitCount, m \in 0..MaxUnitCount, extra \in ExtraUnitRows,
          nl \in 0..MaxPerKind, ns \in 0..MaxPerKind, na \in 0..MaxPerKind,
          nm \in 0..MaxPerKind, nf \in 0..MaxPerKind, other \in OtherOps :
            level = RooflineLevel(a, m, extra, nl, ns, na, nm, nf, other)
    /\ instructions = level.instructions
    /\ lastOp = "init"
    /\ sched = Idle
    /\ pc = "idle"

\* one render of MetricsPanel with the session's instructions and level
MetricsRender ==
    /\ pc = "idle"
    /\ lastOp' = "render"
    /\ UNCHANGED <<level, instructions, sched, pc>>

MetricsNext == MetricsRender

MetricsSpec == MetricsInit /\ [][MetricsNext]_vars

-----------------------------------------------------------------------------
(* Properties                                                              *)

EveryInstructionPlaced == \A k \in 1..Len(instructions) : instructions[k].cycle >= 0

\* C1 as stated: valid = true exactly when every instruction is placed and
\* the returned hazard list is empty.
C1_ValidIffPlacedAndClean ==
    LET sim == simulation IN
    ~sim.threw =>
        (sim.valid <=>
            (EveryInstructionPlaced /\ sim.hazards = <<>>))

\* C1 amended: valid = true exactly when the instruction set is not empty,
\* every instruction is placed and the returned hazard list is empty; an
\* unplaced instruction always gives valid = false.
C1_ValidIffNonEmptyPlacedAndClean ==
    LET sim == simulation IN
    /\ sim.valid <=>
          /\ ~sim.threw
          /\ Len(instructions) > 0
          /\ EveryInstructionPlaced
          /\ sim.hazards = <<>>
    /\ ~EveryInstructionPlaced => ~sim.valid

\* a placement with an unplaced instruction, a placed one and no hazard
C1_Witness ==
    LET sim == simulation IN
    /\ lastOp = "place"
    /\ ~EveryInstructionPlaced
    /\ \E k \in 1..Len(instructions) : instructions[k].cycle >= 0
    /\ sim.hazards = <<>>
    /\ ~sim.threw

\* ---- feasibility of a level, as the claims define it ----

KindOf(type) == INSTRUCTION_SPECS[type].unit

RowsOfKind(lvl, kind) == {r \in 1..Len(lvl.units) : lvl.units[r].type = kind}

\* ids left after repeatedly removing every instruction whose dependencies
\* are all removed already: empty exactly when the dependencies are acyclic
RECURSIVE CyclicCore(_, _)
CyclicCore(insts, S) ==
    LET ready == {k \in S : \A d \in 1..Len(insts[k].dependencies) :
                     \A j \in S : insts[j].id # insts[k].dependencies[d]}
    IN  IF ready = {} THEN S ELSE CyclicCore(insts, S \ ready)

Feasible(lvl) ==
    LET insts == lvl.instructions IN
    /\ \A k \in 1..Len(insts) : insts[k].type \in DOMAIN INSTRUCTION_SPECS
    /\ \A k \in 1..Len(insts) : \A d \in 1..Len(insts[k].dependencies) :
          \E j \in 1..Len(insts) : insts[j].id = insts[k].dependencies[d]
    /\ CyclicCore(insts, 1..Len(insts)) = {}
    /\ \A k \in 1..Len(insts) : RowsOfKind(lvl, KindOf(insts[k].type)) # {}

\* no kind has more instructions than its unit rows offer slots in one window
WithinWindow(lvl) ==
    \A kind \in {"MEM", "ALU"} :
        Cardinality({k \in 1..Len(lvl.instructions) :
                        KindOf(lvl.instructions[k].type) = kind})
            <= SearchWindow * Cardinality(RowsOfKind(lvl, kind))

InstById(id) == instructions[CHOOSE k \in 1..Len(instructions) : instructions[k].id = id]

ScenarioA_LoadsSerialized ==
    /\ InstById("1").unitIndex = 0
    /\ InstById("2").unitIndex = 0
    /\ InstById("1").cycle >= 0
    /\ InstById("2").cycle >= 0
    /\ InstById("1").cycle # InstById("2").cycle

\* C3 as stated: Scenario A, auto-schedule on level-1 puts the two LOADs on
\* the memory unit at different start cycles and the result has
\* totalCycles = 8 and valid = true.
C3_ScenarioA_TotalCycles8 ==
    LET sim == simulation IN
    (pc = "done" /\ level.id = "level-1") =>
        /\ ScenarioA_LoadsSerialized
        /\ sim.totalCycles = 8
        /\ sim.valid

\* C3 amended: the same with totalCycles = 6 (the LOADs start at cycles 0
\* and 1, the ADD at 4, the STORE at 5).
C3_ScenarioA_TotalCycles6 ==
    LET sim == simulation IN
    (pc = "done" /\ level.id = "level-1") =>
        /\ ScenarioA_LoadsSerialized
        /\ sim.totalCycles = 6
        /\ sim.valid

C3_Witness ==
    /\ pc = "done"
    /\ lastOp = "auto"
    /\ level.id = "level-1"
    /\ InstById("1").cycle = 0
    /\ InstById("2").cycle = 1
    /\ InstById("3").cycle = 4
    /\ InstById("4").cycle = 5
    /\ simulation.valid

\* the list a finished run returns: distinct instructions of the level, each
\* with a start cycle and a unit row, the rest still in `remaining`
PartialPlacement ==
    LET ids == {level.instructions[k].id : k \in 1..Len(level.instructions)}
        done == {sched.scheduled[k].id : k \in 1..Len(sched.scheduled)}
        left == {sched.remaining[k].id : k \in 1..Len(sched.remaining)}
    IN  /\ done \cup left = ids
        /\ done \cap left = {}
        /\ Cardinality(done) = Len(sched.scheduled)
        /\ \A k \in 1..Len(sched.scheduled) :
              /\ sched.scheduled[k].cycle >= 0
              /\ sched.scheduled[k].unitIndex >= 0
              /\ sched.scheduled[k].unitIndex < Len(level.units)

\* C4: computeAutoSchedule never makes more than 1000 outer passes, every run
\* ends, and a run that ends without an error returns the instructions
\* committed so far as a partial placement.
C4_BoundedPassesAndTermination ==
    /\ [](sched.safeGuard <= 1000)
    /\ <>(pc = "done")
    /\ []((pc = "done" /\ ~sched.threw) => PartialPlacement)

\* a run that used all 1000 passes and returned a partial placement
C4_Witness ==
    /\ pc = "done"
    /\ sched.safeGuard = 1000
    /\ Len(sched.remaining) > 0
    /\ Len(sched.scheduled) > 0
    /\ ~sched.threw

\* C5: exporting the placements of the current state and replaying the export
\* on a freshly reset instruction list gives the same validator result.
C5_ExportReplayRoundTrip ==
    Simulation(HandleReplayRun(HandleReset(level),
                               RowOf(ExportPlacements(instructions))),
               level) = simulation

\* C6: after auto-schedule every committed instruction carries the
\* scheduler's placement and every other instruction is unplaced.
C6_AutoScheduleIgnoresPriorPlacement ==
    [][AutoSchedule =>
        LET run == ComputeAutoSchedule(instructions, level) IN
        ~run.threw =>
            \A k \in 1..Len(instructions') :
                LET p == instructions'[k]
                    S == {j \in 1..Len(run.scheduled) : run.scheduled[j].id = p.id}
                IN  /\ \A j \in S : /\ p.cycle = run.scheduled[j].cycle
                                    /\ p.unitIndex = run.scheduled[j].unitIndex
                    /\ S = {} => (p.cycle = -1 /\ p.unitIndex = -1)]_vars

\* C7: neither the validator nor the scheduler raises an error, in any state
\* of any level.
C7_NoErrorRaised ==
    /\ ~simulation.threw
    /\ ~ComputeAutoSchedule(instructions, level).threw

HazardsOf(id) ==
    {h \in 1..Len(simulation.hazards) : simulation.hazards[h].instructionId = id}

\* positions d of I's dependency list that name an unplaced instruction of the set
UnplacedDeps(I) ==
    {d \in 1..Len(I.dependencies) :
        \E j \in 1..Len(instructions) :
            /\ instructions[j].id = I.dependencies[d]
            /\ instructions[j].cycle < 0}

StalledHazards(I, d) ==
    {h \in HazardsOf(I.id) :
        /\ simulation.hazards[h].type = "RAW"
        /\ simulation.hazards[h].cycle = I.cycle
        /\ simulation.hazards[h].reason[1] = "Stalled on unplaced"
        /\ simulation.hazards[h].reason[3] = I.dependencies[d]}

\* I has no defect besides the unplaced dependencies: its unit row, if any,
\* is of the right kind, every placed dependency has ended, no other placed
\* instruction shares its cell
NoOtherDefect(I) ==
    /\ (I.unitIndex >= 0 /\ I.unitIndex < Len(level.units))
          => level.units[I.unitIndex + 1].type = KindOf(I.type)
    /\ \A d \in 1..Len(I.dependencies) : \A j \in 1..Len(instructions) :
          (instructions[j].id = I.dependencies[d] /\ instructions[j].cycle >= 0)
             => I.cycle >= instructions[j].cycle
                              + INSTRUCTION_SPECS[instructions[j].type].latency
    /\ \A j \in 1..Len(instructions) :
          (instructions[j].id # I.id /\ instructions[j].cycle >= 0)
             => ~(instructions[j].unitIndex = I.unitIndex
                    /\ instructions[j].cycle = I.cycle)

\* C9: for a placed instruction I, each dependency that is an unplaced
\* instruction of the set gives exactly one RAW hazard of I at I's start cycle
\* saying the dependency is unplaced, and valid = false; with exactly one such
\* dependency and no other defect, I has exactly one hazard.
C9_UnplacedDependencyRAW ==
    LET sim == simulation IN
    ~sim.threw =>
        \A k \in 1..Len(instructions) :
            LET I == instructions[k] IN
            I.cycle >= 0 =>
                /\ \A d \in UnplacedDeps(I) :
                      /\ Cardinality(StalledHazards(I, d)) = 1
                      /\ ~sim.valid
                /\ (Cardinality(UnplacedDeps(I)) = 1 /\ NoOtherDefect(I))
                      => Cardinality(HazardsOf(I.id)) = 1

\* an instruction was placed while its only dependency is unplaced, and the
\* hazard list holds just the one RAW hazard
C9_Witness ==
    LET sim == simulation IN
    /\ lastOp = "place"
    /\ ~sim.threw
    /\ Len(sim.hazards) = 1
    /\ sim.hazards[1].type = "RAW"
    /\ \E k \in 1..Len(instructions) :
          /\ instructions[k].cycle >= 0
          /\ Cardinality(UnplacedDeps(instructions[k])) = 1
          /\ NoOtherDefect(instructions[k])

\* placed on a unit row whose kind is not the kind the operation requires
OnWrongKind(I) ==
    /\ I.cycle >= 0
    /\ I.unitIndex >= 0
    /\ I.unitIndex < Len(level.units)
    /\ level.units[I.unitIndex + 1].type # KindOf(I.type)

UnitMismatchHazards(I) ==
    {h \in HazardsOf(I.id) :
        /\ simulation.hazards[h].type = "UNIT"
        /\ simulation.hazards[h].cycle = I.cycle}

\* C10: a placed instruction on a unit row of another kind than its operation
\* requires has exactly one UnitMismatch hazard, whatever its start cycle and
\* its dependencies, and valid = false.
C10_UnitMismatch ==
    LET sim == simulation IN
    ~sim.threw =>
        \A k \in 1..Len(instructions) :
            OnWrongKind(instructions[k]) =>
                /\ Cardinality(UnitMismatchHazards(instructions[k])) = 1
                /\ ~sim.valid

\* every instruction is placed, timing and dependencies are respected, and
\* the only hazard is the UnitMismatch of an instruction on the wrong row
C10_Witness ==
    LET sim == simulation IN
    /\ ~sim.threw
    /\ EveryInstructionPlaced
    /\ Len(sim.hazards) = 1
    /\ sim.hazards[1].type = "UNIT"
    /\ \E k \in 1..Len(instructions) : OnWrongKind(instructions[k])

\* the Structural hazards the validator attributes to I
StructuralHazardsOf(I) ==
    {h \in HazardsOf(I.id) :
        /\ simulation.hazards[h].type = "STRUCTURAL"
        /\ simulation.hazards[h].cycle = I.cycle}

\* another placed instruction on I's unit index at I's start cycle
SharesCell(I) ==
    \E j \in 1..Len(instructions) :
        /\ instructions[j].id # I.id
        /\ instructions[j].cycle >= 0
        /\ instructions[j].unitIndex = I.unitIndex
        /\ instructions[j].cycle = I.cycle

\* another placed instruction on I's unit index whose interval
\* [start, start + latency) overlaps I's although the start cycles differ
OverlapsWithOffset(I) ==
    \E j \in 1..Len(instructions) :
        /\ instructions[j].id # I.id
        /\ instructions[j].cycle >= 0
        /\ instructions[j].unitIndex = I.unitIndex
        /\ instructions[j].cycle # I.cycle
        /\ instructions[j].cycle < I.cycle + INSTRUCTION_SPECS[I.type].latency
        /\ I.cycle < instructions[j].cycle
                        + INSTRUCTION_SPECS[instructions[j].type].latency

\* C11: a placed instruction I has one Structural hazard if some other placed
\* instruction has I's unitIndex and exactly I's start cycle, and none
\* otherwise: both members of a colliding pair are flagged, and instructions
\* on one unit with different start cycles are not, even when their
\* occupancy intervals overlap.
C11_StructuralIffSameCell ==
    ~simulation.threw =>
        \A k \in 1..Len(instructions) :
            LET I == instructions[k] IN
            I.cycle >= 0 =>
                Cardinality(StructuralHazardsOf(I)) = IF SharesCell(I) THEN 1 ELSE 0

\* a colliding pair, both flagged, next to an instruction that overlaps
\* another one on its unit with an offset start and is not flagged
C11_Witness ==
    /\ ~simulation.threw
    /\ \E i, j \in 1..Len(instructions) :
          /\ i # j
          /\ instructions[i].cycle >= 0
          /\ instructions[i].cycle = instructions[j].cycle
          /\ instructions[i].unitIndex = instructions[j].unitIndex
          /\ Cardinality(StructuralHazardsOf(instructions[i])) = 1
          /\ Cardinality(StructuralHazardsOf(instructions[j])) = 1
    /\ \E k \in 1..Len(instructions) :
          /\ instructions[k].cycle >= 0
          /\ OverlapsWithOffset(instructions[k])
          /\ StructuralHazardsOf(instructions[k]) = {}

\* start cycle + latency of the operation, for a placed instruction
EndOf(I) == I.cycle + INSTRUCTION_SPECS[I.type].latency

PlacedPositions == {k \in 1..Len(instructions) : instructions[k].cycle >= 0}

\* C12: when at least one instruction is placed, totalCycles is the greatest
\* start cycle + latency over the placed instructions, those with hazards
\* included and the unplaced ones left out.
C12_TotalCyclesIsMaxEnd ==
    LET sim == simulation IN
    (~sim.threw /\ PlacedPositions # {}) =>
        /\ \E k \in PlacedPositions : sim.totalCycles = EndOf(instructions[k])
        /\ \A k \in PlacedPositions : sim.totalCycles >= EndOf(instructions[k])

\* an instruction is unplaced, and the placed instruction that ends last
\* carries a hazard and has a latency above one
C12_Witness ==
    LET sim == simulation IN
    /\ ~sim.threw
    /\ \E u \in 1..Len(instructions) : instructions[u].cycle < 0
    /\ \E k \in PlacedPositions :
          /\ HazardsOf(instructions[k].id) # {}
          /\ INSTRUCTION_SPECS[instructions[k].type].latency > 1
          /\ sim.totalCycles = EndOf(instructions[k])
          /\ \A j \in PlacedPositions \ {k} :
                EndOf(instructions[j]) < EndOf(instructions[k])
          /\ PlacedPositions # {k}

\* C13: score = max(0, 1000 - 10 * totalCycles) when the result is valid and
\* 0 otherwise; the score is never negative, never above 1000, and positive
\* only for a valid schedule with totalCycles < 100.
C13_ScoreFormula ==
    LET sim == simulation IN
    ~sim.threw =>
        LET raw == 1000 - 10 * sim.totalCycles IN
        /\ sim.valid => sim.score = (IF raw > 0 THEN raw ELSE 0)
        /\ ~sim.valid => sim.score = 0
        /\ sim.score >= 0
        /\ sim.score <= 1000
        /\ sim.score > 0 => (sim.valid /\ sim.totalCycles < 100)

\* auto-schedule returned a valid schedule that ends after cycle 100: the
\* score is clamped to 0
C13_Witness ==
    LET sim == simulation IN
    /\ pc = "done"
    /\ sim.valid
    /\ sim.totalCycles > 100
    /\ sim.score = 0

\* a valid schedule that ends at cycle 99 scores 10
C13_LastPositiveScore ==
    LET sim == simulation IN
    /\ pc = "done"
    /\ sim.valid
    /\ sim.totalCycles = 99
    /\ sim.score = 10

\* C14: when no instruction is placed (right after reset, and with an empty
\* instruction set, too) the validator returns exactly valid = false,
\* totalCycles = 0, an empty hazard list and score = 0, and raises no error.
C14_NothingPlacedEmptyResult ==
    LET sim == simulation IN
    PlacedPositions = {} =>
        /\ ~sim.threw
        /\ sim.valid = FALSE
        /\ sim.totalCycles = 0
        /\ sim.hazards = <<>>
        /\ sim.score = 0

\* a replayed row left every instruction without a start cycle, one of them
\* with a unit index
C14_UnitIndexWithoutCycle ==
    /\ lastOp = "replay"
    /\ Len(instructions) > 0
    /\ PlacedPositions = {}
    /\ \E k \in 1..Len(instructions) : instructions[k].unitIndex >= 0

\* the same right after reset
C14_Witness ==
    /\ lastOp = "reset"
    /\ Len(instructions) > 0
    /\ PlacedPositions = {}

\* id, operation kind, dependency list and result name of an instruction
SameDefinition(a, b) ==
    /\ a.id = b.id
    /\ a.type = b.type
    /\ a.dependencies = b.dependencies
    /\ a.variable = b.variable

SamePlacement(a, b) == a.unitIndex = b.unitIndex /\ a.cycle = b.cycle

\* C15: place(id, unitIndex, cycle) gives the instruction with that id the
\* given unitIndex and cycle, whatever the cell holds and whatever the unit
\* kind and the dependencies are, and changes neither the placement of another
\* instruction nor the definition of any instruction.
C15_PlaceFrame ==
    \A id \in IdsOf(instructions), u \in PlaceUnitInputs, c \in PlaceCycleInputs :
        LET after == HandlePlaceInstruction(instructions, id, u, c) IN
        /\ Len(after) = Len(instructions)
        /\ \A k \in 1..Len(instructions) :
              /\ SameDefinition(after[k], instructions[k])
              /\ instructions[k].id = id =>
                    (after[k].unitIndex = u /\ after[k].cycle = c)
              /\ instructions[k].id # id =>
                    SamePlacement(after[k], instructions[k])

\* a place operation has put an instruction on a cell another instruction
\* holds, on a unit of the wrong kind, before its dependency has ended
C15_Witness ==
    LET sim == simulation IN
    /\ lastOp = "place"
    /\ ~sim.threw
    /\ \E k \in 1..Len(instructions) :
          LET I == instructions[k] IN
          /\ I.cycle >= 0
          /\ SharesCell(I)
          /\ OnWrongKind(I)
          /\ \E h \in HazardsOf(I.id) : sim.hazards[h].type = "RAW"

\* the unplaced sentinel
AtSentinel(I) == I.unitIndex = -1 /\ I.cycle = -1

\* C16: remove(id) leaves the instruction with that id at the unplaced
\* sentinel (unitIndex = -1, cycle = -1) with its definition as it was, and
\* every other instruction unchanged; when the instruction is at the sentinel
\* already, the state is unchanged.
C16_RemoveFrame ==
    \A id \in IdsOf(instructions) :
        LET after == HandleRemoveInstruction(instructions, id) IN
        /\ Len(after) = Len(instructions)
        /\ \A k \in 1..Len(instructions) :
              /\ SameDefinition(after[k], instructions[k])
              /\ instructions[k].id = id => AtSentinel(after[k])
              /\ instructions[k].id # id => after[k] = instructions[k]
        /\ (\A k \in 1..Len(instructions) :
               instructions[k].id = id => AtSentinel(instructions[k]))
              => after = instructions

\* a remove operation has left an instruction at the sentinel while another
\* instruction is still placed
C16_Witness ==
    /\ lastOp = "remove"
    /\ \E k \in 1..Len(instructions) : AtSentinel(instructions[k])
    /\ \E k \in 1..Len(instructions) :
          instructions[k].cycle >= 0 /\ instructions[k].unitIndex >= 0

\* every instruction of the level template is at the unplaced sentinel
TemplateUnplaced ==
    \A k \in 1..Len(level.instructions) : AtSentinel(level.instructions[k])

\* the session list is the template's: the same instructions in the same
\* order, all unplaced
SessionEqualsTemplate(insts) ==
    /\ Len(insts) = Len(level.instructions)
    /\ \A k \in 1..Len(insts) :
          /\ SameDefinition(insts[k], level.instructions[k])
          /\ AtSentinel(insts[k])

WithoutUnit(lvl) ==
    {k \in 1..Len(lvl.instructions) :
        /\ HasSpec(lvl.instructions[k].type)
        /\ RowsOfKind(lvl, KindOf(lvl.instructions[k].type)) = {}}

\* S and the positions of the instructions that depend, directly or through
\* other instructions, on an instruction of S
RECURSIVE WithDependents(_, _)
WithDependents(insts, S) ==
    LET more == {k \in 1..Len(insts) :
                    \E d \in 1..Len(insts[k].dependencies) : \E j \in S :
                        insts[j].id = insts[k].dependencies[d]}
    IN  IF more \subseteq S THEN S ELSE WithDependents(insts, S \cup more)

Blocked(lvl) == WithDependents(lvl.instructions, WithoutUnit(lvl))

\* the level has no other obstacle to scheduling: known operation kinds,
\* dependencies that name instructions of the level, no cycle, and, among the
\* instructions that are not blocked, no more of a kind than its unit rows
\* offer slots in one window
OtherwiseSchedulable(lvl) ==
    LET insts == lvl.instructions IN
    /\ \A k \in 1..Len(insts) : HasSpec(insts[k].type)
    /\ \A k \in 1..Len(insts) : \A d \in 1..Len(insts[k].dependencies) :
          \E j \in 1..Len(insts) : insts[j].id = insts[k].dependencies[d]
    /\ CyclicCore(insts, 1..Len(insts)) = {}
    /\ \A kind \in {"MEM", "ALU"} :
          Cardinality({k \in (1..Len(insts)) \ Blocked(lvl) :
                          KindOf(insts[k].type) = kind})
              <= SearchWindow * Cardinality(RowsOfKind(lvl, kind))

\* C18: on a level that lacks a unit of the kind some instruction requires,
\* after auto-schedule that instruction and every instruction that depends on
\* it, directly or not, are unplaced, every other instruction is placed, no
\* error was raised and the validator reports the state as not valid.
C18_MissingKindLeftUnplaced ==
    LET sim == simulation IN
    (lastOp = "auto" /\ WithoutUnit(level) # {} /\ OtherwiseSchedulable(level)) =>
        /\ ~ComputeAutoSchedule(instructions, level).threw
        /\ ~sim.threw
        /\ \A k \in Blocked(level) : instructions[k].cycle < 0
        /\ \A k \in (1..Len(instructions)) \ Blocked(level) : instructions[k].cycle >= 0
        /\ ~sim.valid

\* the list computeAutoSchedule returns on such a level holds every
\* instruction that is not blocked and no blocked one, and the session is
\* not valid after a call that started with nothing placed
C18_ReturnedListLeavesBlockedOut ==
    (pc = "done" /\ WithoutUnit(level) # {} /\ OtherwiseSchedulable(level)) =>
        /\ ~sched.threw
        /\ \A k \in 1..Len(level.instructions) :
              (k \in Blocked(level)) <=>
                  (\A j \in 1..Len(sched.scheduled) :
                      sched.scheduled[j].id # level.instructions[k].id)
        /\ ~simulation.valid

\* C19: every operation (place, remove, reset, auto-schedule, replay) keeps
\* the instructions, their order and the id, operation kind, dependency list
\* and result name of each; only unitIndex and cycle change.
C19_DefinitionsImmutable ==
    [][/\ Len(instructions') = Len(instructions)
       /\ \A k \in 1..Len(instructions) :
             SameDefinition(instructions'[k], instructions[k])]_vars

\* auto-schedule has committed an instruction that is not the first of the
\* list and left an earlier one out, and the list is still the template's
C19_Witness ==
    /\ lastOp = "auto"
    /\ Len(instructions) = Len(level.instructions)
    /\ \A k \in 1..Len(instructions) :
          SameDefinition(instructions[k], level.instructions[k])
    /\ \E i, j \in 1..Len(instructions) :
          /\ i < j
          /\ instructions[i].cycle < 0
          /\ instructions[j].cycle >= 0

\* the reference figures, counted rather than accumulated
CountOfType(type) ==
    Cardinality({k \in 1..Len(instructions) : instructions[k].type = type})

UnitsOfKind(kind) ==
    Cardinality({<<r, n>> \in (1..Len(level.units)) \X (1..MaxUnitCount + 1) :
                    level.units[r].type = kind /\ n <= level.units[r].count})

RefFlops == CountOfType("ADD") + CountOfType("MUL") + 2 * CountOfType("FMA")

RefMemOps == CountOfType("LOAD") + CountOfType("STORE")

C20_ComputeBoundReached ==
    /\ lastOp = "render"
    /\ metrics.operationalIntensity.den > 1
    /\ metrics.peakCompute > 0
    /\ ~metrics.isMemBound
    /\ metrics.rooflineLimit = [num |-> metrics.peakCompute, den |-> 1]

\* the RAW ready-time hazards of consumer I for its placed dependency D
ReadyHazards(hazards, I, D) ==
    {h \in 1..Len(hazards) :
        /\ hazards[h].instructionId = I.id
        /\ hazards[h].type = "RAW"
        /\ hazards[h].reason[1] = "RAW Hazard"
        /\ hazards[h].reason[3] = D.variable
        /\ hazards[h].reason[4] = EndOf(D)}

\* pairs <<k, j>>: instruction k is placed and lists the id of the placed
\* instruction j among its dependencies
PlacedDependencies ==
    {p \in (1..Len(instructions)) \X (1..Len(instructions)) :
        /\ instructions[p[1]].cycle >= 0
        /\ instructions[p[2]].cycle >= 0
        /\ \E d \in 1..Len(instructions[p[1]].dependencies) :
              instructions[p[1]].dependencies[d] = instructions[p[2]].id}

\* C21: for a placed consumer C and a placed dependency D of C that is in
\* the instruction set, the validator emits a RAW ready-time hazard attributed
\* to C exactly when C.cycle < D.cycle + latency(D); a consumer that starts
\* exactly at D's end cycle has no RAW hazard for D.
C21_RawIffBeforeDependencyEnd ==
    LET sim == simulation IN
    ~sim.threw =>
        \A p \in PlacedDependencies :
            LET C == instructions[p[1]]
                D == instructions[p[2]]
            IN  /\ (ReadyHazards(sim.hazards, C, D) # {}) <=> (C.cycle < EndOf(D))
                /\ \A h \in ReadyHazards(sim.hazards, C, D) :
                      sim.hazards[h].cycle = C.cycle
                /\ C.cycle = EndOf(D) => ReadyHazards(sim.hazards, C, D) = {}

\* C21 witness: a consumer was placed exactly at the end cycle of its placed
\* dependency, which lasts more than one cycle, and the hazard list is empty
C21_Witness ==
    LET sim == simulation IN
    /\ lastOp = "place"
    /\ ~sim.threw
    /\ sim.hazards = <<>>
    /\ \E p \in PlacedDependencies :
          /\ instructions[p[1]].cycle = EndOf(instructions[p[2]])
          /\ EndOf(instructions[p[2]]) > instructions[p[2]].cycle + 1

\* C21 seen from the other side: a consumer one cycle before the end of its
\* dependency carries the ready-time hazard
C21_OneCycleEarly ==
    LET sim == simulation IN
    /\ ~sim.threw
    /\ \E p \in PlacedDependencies :
          /\ instructions[p[1]].cycle = EndOf(instructions[p[2]]) - 1
          /\ instructions[p[1]].cycle > instructions[p[2]].cycle
          /\ ReadyHazards(sim.hazards, instructions[p[1]], instructions[p[2]]) # {}

\* the k-th committed instruction of a list in commit order, seen against the
\* instructions committed before it
EarliestOf(list, k) ==
    LET ends == {0} \cup
                {list[j].cycle + INSTRUCTION_SPECS[list[j].type].latency :
                    j \in {i \in 1..(k - 1) :
                             \E d \in 1..Len(list[k].dependencies) :
                                 list[k].dependencies[d] = list[i].id}}
    IN  CHOOSE m \in ends : \A e \in ends : m >= e

TakenBefore(list, k, u, c) ==
    \E j \in 1..(k - 1) : list[j].unitIndex = u /\ list[j].cycle = c

FirstFreePair(list, k, lvl) ==
    LET I == list[k]
        e == EarliestOf(list, k)
        rows == {u \in 0..(Len(lvl.units) - 1) :
                    lvl.units[u + 1].type = KindOf(I.type)}
    IN  /\ \A d \in 1..Len(I.dependencies) :
              \E j \in 1..(k - 1) : list[j].id = I.dependencies[d]
        /\ e <= I.cycle /\ I.cycle < e + 50
        /\ I.unitIndex \in rows
        /\ ~TakenBefore(list, k, I.unitIndex, I.cycle)
        /\ \A u \in rows : u < I.unitIndex => TakenBefore(list, k, u, I.cycle)
        /\ \A c \in e..(I.cycle - 1) : \A u \in rows : TakenBefore(list, k, u, c)

\* C22: each instruction committed by auto-schedule gets the first free pair
\* in scan order: the smallest cycle c with earliestCycle <= c <
\* earliestCycle + 50 and, at that cycle, the smallest unit index of the
\* required kind, such that no instruction committed before sits at exactly
\* (unitIndex, c); earliestCycle is the largest depStart + depLatency over its
\* dependencies, 0 without dependencies.
C22_CommitsFirstFreePair ==
    [][\A k \in (Len(sched.scheduled) + 1)..Len(sched'.scheduled) :
          FirstFreePair(sched'.scheduled, k, level)]_vars

\* C22 witness: a finished run in which an instruction had to pass over an
\* occupied cell at its earliest cycle and another started after its
\* dependencies ended
C22_Witness ==
    /\ pc = "done"
    /\ ~sched.threw
    /\ \E k \in 1..Len(sched.scheduled) :
          /\ sched.scheduled[k].cycle > EarliestOf(sched.scheduled, k)
          /\ FirstFreePair(sched.scheduled, k, level)
    /\ \E k \in 1..Len(sched.scheduled) :
          /\ EarliestOf(sched.scheduled, k) > 0
          /\ sched.scheduled[k].cycle = EarliestOf(sched.scheduled, k)

\* C22 on two rows of one kind: the second row is taken at a cycle whose
\* first row is occupied
C22_SecondRowTaken ==
    /\ pc = "done"
    /\ \E k \in 1..Len(sched.scheduled) :
          /\ sched.scheduled[k].unitIndex > 0
          /\ TakenBefore(sched.scheduled, k, 0, sched.scheduled[k].cycle)
          /\ level.units[1].type = KindOf(sched.scheduled[k].type)

\* positions reachable from S along dependencies, S included
RECURSIVE WithDependencies(_, _)
WithDependencies(insts, S) ==
    LET more == {j \in 1..Len(insts) :
                    \E k \in S : \E d \in 1..Len(insts[k].dependencies) :
                        insts[j].id = insts[k].dependencies[d]}
    IN  IF more \subseteq S THEN S ELSE WithDependencies(insts, S \cup more)

\* positions of the instructions that lie on a dependency cycle
OnCycle(insts) ==
    {k \in 1..Len(insts) :
        \E j \in 1..Len(insts) :
            /\ \E d \in 1..Len(insts[k].dependencies) :
                  insts[j].id = insts[k].dependencies[d]
            /\ k \in WithDependencies(insts, {j})}

\* those and the instructions that depend on one of them, directly or not
CycleBound(insts) == WithDependents(insts, OnCycle(insts))

\* every operation kind is known and has a unit row
EveryKindHasUnit(lvl) ==
    \A k \in 1..Len(lvl.instructions) :
        /\ HasSpec(lvl.instructions[k].type)
        /\ RowsOfKind(lvl, KindOf(lvl.instructions[k].type)) # {}

NoDanglingIds(lvl) ==
    \A k \in 1..Len(lvl.instructions) :
        \A d \in 1..Len(lvl.instructions[k].dependencies) :
            \E j \in 1..Len(lvl.instructions) :
                lvl.instructions[j].id = lvl.instructions[k].dependencies[d]

\* the unplaced instructions none of whose dependencies is still uncommitted
ReadySet ==
    {k \in 1..Len(sched.remaining) :
        \A d \in 1..Len(sched.remaining[k].dependencies) :
            \E j \in 1..Len(sched.scheduled) :
                sched.scheduled[j].id = sched.remaining[k].dependencies[d]}

\* the run stopped through the empty ready set, and the returned list holds
\* exactly the instructions that are not bound to a cycle
StoppedWithCycleLeft ==
    /\ ~sched.threw
    /\ sched.broke
    /\ ReadySet = {}
    /\ {sched.scheduled[k].id : k \in 1..Len(sched.scheduled)}
          = {level.instructions[k].id :
                k \in (1..Len(level.instructions)) \ CycleBound(level.instructions)}
    /\ {sched.remaining[k].id : k \in 1..Len(sched.remaining)}
          = {level.instructions[k].id : k \in CycleBound(level.instructions)}
    /\ \A k \in 1..Len(sched.scheduled) :
          sched.scheduled[k].cycle >= 0 /\ sched.scheduled[k].unitIndex >= 0

\* a pass that finds the ready set empty is the last one
StopsAtEmptyReadySet ==
    (pc = "loop" /\ ReadySet = {} /\ sched' # sched) => ~SchedRunning(sched')

DanglingDeps(I) ==
    {d \in 1..Len(I.dependencies) :
        \A j \in 1..Len(instructions) : instructions[j].id # I.dependencies[d]}

\* positions d of I's dependency list whose instruction is unplaced or has
\* not ended when I starts
UnmetDeps(I) ==
    {d \in 1..Len(I.dependencies) :
        \E j \in 1..Len(instructions) :
            /\ instructions[j].id = I.dependencies[d]
            /\ \/ instructions[j].cycle < 0
               \/ I.cycle < EndOf(instructions[j])}

RawHazardsOf(hazards, I) ==
    {h \in 1..Len(hazards) :
        hazards[h].instructionId = I.id /\ hazards[h].type = "RAW"}

\* C24: a dependency id that names no instruction of the set gives no hazard
\* (a placed instruction has one RAW hazard per unmet dependency found in the
\* set and none besides), and a placement in which every instruction is
\* placed and the only unmet dependencies are dangling ids is reported valid.
C24_DanglingIdRaisesNothing ==
    LET sim == simulation IN
    ~sim.threw =>
        /\ \A k \in 1..Len(instructions) :
              instructions[k].cycle >= 0 =>
                 Cardinality(RawHazardsOf(sim.hazards, instructions[k]))
                    = Cardinality(UnmetDeps(instructions[k]))
        /\ (/\ EveryInstructionPlaced
            /\ \E k \in 1..Len(instructions) : DanglingDeps(instructions[k]) # {}
            /\ \A k \in 1..Len(instructions) : NoOtherDefect(instructions[k]))
              => (sim.valid /\ sim.hazards = <<>>)

\* C24 witness: the last instruction of a level with a dangling id was
\* placed and the placement is reported valid
C24_Witness ==
    LET sim == simulation IN
    /\ lastOp = "place"
    /\ EveryInstructionPlaced
    /\ \E k \in 1..Len(instructions) : DanglingDeps(instructions[k]) # {}
    /\ sim.valid
    /\ sim.score > 0

\* 1-based position of the instruction a hazard is attributed to, 0 if none
HazardPos(hz) ==
    IF \E k \in 1..Len(instructions) : instructions[k].id = hz.instructionId
    THEN CHOOSE k \in 1..Len(instructions) : instructions[k].id = hz.instructionId
    ELSE 0

\* UnitMismatch, then RAW, then Structural
KindRank(hz) ==
    IF hz.type = "UNIT" THEN 1 ELSE IF hz.type = "RAW" THEN 2 ELSE 3

\* positions of the dependency list of I a RAW hazard can stand for
DepPositions(hz, I) ==
    {d \in 1..Len(I.dependencies) :
        \E j \in 1..Len(instructions) :
            /\ instructions[j].id = I.dependencies[d]
            /\ IF hz.reason[1] = "Stalled on unplaced"
               THEN instructions[j].cycle < 0 /\ hz.reason[3] = I.dependencies[d]
               ELSE /\ instructions[j].cycle >= 0
                    /\ hz.reason[3] = instructions[j].variable
                    /\ hz.reason[4] = EndOf(instructions[j])}

\* hazard a comes before hazard b in the order the claim describes
HazardBefore(a, b) ==
    LET pa == HazardPos(a)
        pb == HazardPos(b)
    IN  /\ pa # 0 /\ pb # 0
        /\ \/ instructions[pa].cycle < instructions[pb].cycle
           \/ instructions[pa].cycle = instructions[pb].cycle /\ pa < pb
           \/ /\ pa = pb
              /\ \/ KindRank(a) < KindRank(b)
                 \/ /\ a.type = "RAW" /\ b.type = "RAW"
                    /\ \E da \in DepPositions(a, instructions[pa]) :
                          \E db \in DepPositions(b, instructions[pa]) : da < db

\* C25: the hazard list is ordered by the start cycle of the instruction a
\* hazard is attributed to, instructions of equal start cycle in declaration
\* order; within one instruction UnitMismatch comes first, then the RAW
\* hazards in dependency-list order, then Structural; every hazard carries
\* the start cycle of its instruction and none is attributed to an unplaced
\* instruction.
C25_HazardOrder ==
    LET sim == simulation IN
    ~sim.threw =>
        /\ \A a \in 1..Len(sim.hazards) : \A b \in (a + 1)..Len(sim.hazards) :
              HazardBefore(sim.hazards[a], sim.hazards[b])
        /\ \A a \in 1..Len(sim.hazards) :
              LET p == HazardPos(sim.hazards[a]) IN
              /\ p # 0
              /\ instructions[p].cycle >= 0
              /\ sim.hazards[a].cycle = instructions[p].cycle

\* C25 witness: two instructions share a cell, the one declared later also
\* waits for two dependencies: a Structural hazard of the first, then two RAW
\* hazards and the Structural hazard of the second, while an instruction
\* declared in between is unplaced
C25_Witness ==
    LET sim == simulation IN
    /\ ~sim.threw
    /\ Len(sim.hazards) = 4
    /\ sim.hazards[1].type = "STRUCTURAL"
    /\ sim.hazards[2].type = "RAW" /\ sim.hazards[3].type = "RAW"
    /\ sim.hazards[4].type = "STRUCTURAL"
    /\ sim.hazards[2].reason[1] # sim.hazards[3].reason[1]
    /\ HazardPos(sim.hazards[1]) < HazardPos(sim.hazards[2])
    /\ HazardPos(sim.hazards[2]) = HazardPos(sim.hazards[4])
    /\ \E k \in 1..Len(instructions) : instructions[k].cycle < 0

\* C25 with a unit mismatch: it comes before the RAW hazard of its
\* instruction, and an instruction placed later in time but declared earlier
\* comes after
C25_UnitFirstAndCycleOrder ==
    LET sim == simulation IN
    /\ ~sim.threw
    /\ \E a \in 1..Len(sim.hazards) : \E b \in (a + 1)..Len(sim.hazards) :
          /\ sim.hazards[a].type = "UNIT" /\ sim.hazards[b].type = "RAW"
          /\ sim.hazards[a].instructionId = sim.hazards[b].instructionId
    /\ \E a \in 1..Len(sim.hazards) : \E b \in (a + 1)..Len(sim.hazards) :
          HazardPos(sim.hazards[a]) > HazardPos(sim.hazards[b])

\* an instruction of the given type dropped on unit row u at cycle 0
Probe(type, u) ==
    [id |-> "probe", type |-> type, cycle |-> 0, unitIndex |-> u,
     dependencies |-> <<>>, variable |-> "p"]

\* unit indices of the level's list on which the validator accepts the type
AcceptedIndices(lvl, type) ==
    {u \in 0..(Len(lvl.units) - 1) : UnitHazards(Probe(type, u), lvl) = <<>>}

\* C26: unit addressing and per-kind counting agree: for each unit kind the
\* number of unit indices on which an instruction of that kind is accepted
\* without a UnitMismatch hazard, which are the indices auto-schedule tries,
\* equals the count of units of that kind shown as peakCompute or
\* peakMemBW.
C26_AddressingMatchesCounting ==
    lastOp = "render" =>
        /\ AcceptedIndices(level, "ADD") = ValidUnitIndices(level, "ALU")
        /\ AcceptedIndices(level, "LOAD") = ValidUnitIndices(level, "MEM")
        /\ Cardinality(ValidUnitIndices(level, "ALU")) = metrics.peakCompute
        /\ Cardinality(ValidUnitIndices(level, "MEM")) = metrics.peakMemBW

\* the part of C26 that holds: the validator accepts a kind on exactly the
\* rows auto-schedule tries for it, and the counts agree on every level whose
\* rows all have count 1
C26_AgreesWhenCountsAreOne ==
    /\ AcceptedIndices(level, "ADD") = ValidUnitIndices(level, "ALU")
    /\ AcceptedIndices(level, "LOAD") = ValidUnitIndices(level, "MEM")
    /\ (\A r \in 1..Len(level.units) : level.units[r].count = 1) =>
          /\ Cardinality(ValidUnitIndices(level, "ALU")) = metrics.peakCompute
          /\ Cardinality(ValidUnitIndices(level, "MEM")) = metrics.peakMemBW

\* what the claim says of a replay of row on the list `before`
ReplayEffect(row, before, after) ==
    IF ~row.hasPlacements THEN after = before
    ELSE LET listed == row.schedule_json.placements IN
         /\ Len(after) = Len(before)
         /\ \A k \in 1..Len(before) :
               /\ SameDefinition(after[k], before[k])
               /\ IF \E m \in 1..Len(listed) : listed[m].instructionId = before[k].id
                  THEN \E m \in 1..Len(listed) :
                          /\ listed[m].instructionId = before[k].id
                          /\ after[k].unitIndex = listed[m].unitIndex
                          /\ after[k].cycle = listed[m].cycle
                  ELSE AtSentinel(after[k])

\* C27: a replay gives every instruction whose id the placement set lists
\* the listed (unitIndex, cycle) and resets every other instruction to
\* unplaced, whatever was placed before; a record without a placements list
\* leaves the session as it was.  (Stated of every row that can be replayed
\* in the current state.)
C27_ReplayOverwritesAll ==
    \A row \in ReplayRows(instructions, level) :
        ReplayEffect(row, instructions, HandleReplayRun(instructions, row))

\* C27 witness: after a replay one instruction sits at a listed cell that
\* lies outside the grid of manual placement, every other one is unplaced
C27_Witness ==
    /\ lastOp = "replay"
    /\ Len(instructions) >= 2
    /\ \E k \in 1..Len(instructions) :
          /\ instructions[k].cycle >= 0
          /\ instructions[k].unitIndex = -1
          /\ \A j \in 1..Len(instructions) : j # k => AtSentinel(instructions[j])

\* I sits on a row of the level's unit list, and the row has the kind I needs
OnRowOfRequiredKind(I) ==
    /\ I.unitIndex >= 0
    /\ I.unitIndex < Len(level.units)
    /\ HasSpec(I.type)
    /\ level.units[I.unitIndex + 1].type = KindOf(I.type)

\* C28: in every state reachable through place, remove, reset, auto-schedule
\* and replay, if the validator reports valid = true then the unitIndex of
\* every instruction indexes into the level's unit list and the unit there
\* has the kind the operation requires.
C28_ValidImpliesUnitsInRange ==
    LET sim == simulation IN
    (~sim.threw /\ sim.valid) =>
        \A k \in 1..Len(instructions) : OnRowOfRequiredKind(instructions[k])

\* the state of C28's failing input: reported valid while an instruction has
\* a start cycle and the unit index -1, which only a replayed row can give
C28_ValidWithoutUnit ==
    LET sim == simulation IN
    /\ ~sim.threw
    /\ sim.valid
    /\ \E k \in 1..Len(instructions) :
          instructions[k].cycle >= 0 /\ instructions[k].unitIndex = -1

\* the part of C28 that holds: in a state reported valid no instruction sits
\* on a row of the unit list that has another kind than it requires
C28_ValidImpliesNoWrongRow ==
    LET sim == simulation IN
    (~sim.threw /\ sim.valid) =>
        \A k \in 1..Len(instructions) :
            (instructions[k].unitIndex >= 0
                /\ instructions[k].unitIndex < Len(level.units))
              => OnRowOfRequiredKind(instructions[k])

\* the placement a finished run returns, laid over the level's instructions:
\* a returned instruction as committed, every other one unplaced
ReturnedPlacement ==
    [k \in 1..Len(level.instructions) |->
        LET m == FindIdx(sched.scheduled, level.instructions[k].id)
        IN  IF m # 0 THEN sched.scheduled[m]
            ELSE ResetPlacement(level.instructions[k])]

\* C29: for every level, feasible or not, validating the placement returned
\* by computeAutoSchedule, everything it did not return being unplaced, gives
\* an empty hazard list: no two committed instructions share a (unitIndex,
\* cycle), each sits on a unit of its required kind, and each starts no
\* earlier than the end cycle of every one of its dependencies.
C29_ReturnedPlacementHasNoHazard ==
    (pc = "done" /\ ~sched.threw) =>
        LET list == sched.scheduled
            res == Simulation(ReturnedPlacement, level)
        IN  /\ ~res.threw
            /\ res.hazards = <<>>
            /\ \A a \in 1..Len(list) : \A b \in 1..Len(list) :
                  (a # b) => ~(list[a].unitIndex = list[b].unitIndex
                                 /\ list[a].cycle = list[b].cycle)
            /\ \A a \in 1..Len(list) :
                  /\ list[a].unitIndex >= 0
                  /\ list[a].unitIndex < Len(level.units)
                  /\ level.units[list[a].unitIndex + 1].type = KindOf(list[a].type)
            /\ \A a \in 1..Len(list) : \A d \in 1..Len(list[a].dependencies) :
                  \E b \in 1..Len(list) :
                      /\ list[b].id = list[a].dependencies[d]
                      /\ list[a].cycle >= EndOf(list[b])

\* C29 witness: a run on a level that is not feasible returned some of the
\* instructions, one of them after a dependency that lasts several cycles,
\* and the validator finds no hazard in that partial placement
C29_Witness ==
    /\ pc = "done"
    /\ ~sched.threw
    /\ ~Feasible(level)
    /\ Len(sched.remaining) > 0
    /\ \E a \in 1..Len(sched.scheduled) : sched.scheduled[a].cycle >= 3
    /\ Simulation(ReturnedPlacement, level).hazards = <<>>
    /\ ~Simulation(ReturnedPlacement, level).valid

\* C30: if the dependency graph restricted to the instructions of the set
\* has a cycle (a self-dependency included), no placement reachable through
\* place, remove, replay and auto-schedule is reported valid, because every
\* latency is at least 1.
C30_CyclicNeverValid ==
    OnCycle(level.instructions) # {} => ~simulation.valid

\* the state of C30's failing input: every instruction of a cyclic level is
\* placed, the validator finds no hazard and reports valid with score 0
C30_CyclicReportedValid ==
    LET sim == simulation IN
    /\ lastOp = "replay"
    /\ OnCycle(level.instructions) # {}
    /\ ~sim.threw
    /\ sim.valid
    /\ sim.hazards = <<>>
    /\ sim.totalCycles = Absorbing
    /\ sim.score = 0

\* the part of C30 that holds: as long as every instruction on a cycle
\* starts below the absorbing range, a cyclic level is never reported valid
C30_CyclicNeverValidInRange ==
    (/\ OnCycle(level.instructions) # {}
     /\ \A k \in OnCycle(level.instructions) : instructions[k].cycle < Absorbing)
        => ~simulation.valid

====
